---- MODULE Spec2Model ----
\* Change detection (diffTasks), debounced mail queue (queueMail /
\* sendDebouncedMail) and the PUT /api/data handler of the PM tool backend.
\*
\* JavaScript strings are sequences of UTF-16 code units (naturals); JSON text
\* is a string, so JSON.stringify is modelled as the code units it writes.
EXTENDS Integers, Sequences, FiniteSets, TLC

\* ---------------------------------------------------------------------------
\* Bounds of the model
\* ---------------------------------------------------------------------------
MaxId == 2
MaxTasks == 2

\* ---------------------------------------------------------------------------
\* JavaScript values that occur in task fields
\* ---------------------------------------------------------------------------
\* t: the typeof/shape tag; s: code units of a string; a: elements of an array
\* (the arrays of the model hold strings, each a sequence of code units).
Undef == [t |-> "undefined", s |-> <<>>, a |-> <<>>]
Null == [t |-> "null", s |-> <<>>, a |-> <<>>]
Str(cs) == [t |-> "string", s |-> cs, a |-> <<>>]
Arr(xs) == [t |-> "array", s |-> <<>>, a |-> xs]

\* JavaScript truthiness of a field value: undefined, null and "" are falsy.
Truthy(v) == v.t = "array" \/ (v.t = "string" /\ v.s # <<>>)

WATCH_FIELDS == <<"status", "title", "description", "deadline", "links", "assignedTo">>

WatchSet == {WATCH_FIELDS[i] : i \in DOMAIN WATCH_FIELDS}

\* A task record of the request body / the store: kind "null" is a JSON null
\* in the task list, kind "object" an object with an id and (possibly missing,
\* i.e. undefined) watched fields.
Task(id, status, title, links, assignedTo) ==
  [kind |-> "object", id |-> id,
   f |-> [k \in WatchSet |->
            CASE k = "status" -> status
              [] k = "title" -> title
              [] k = "links" -> links
              [] k = "assignedTo" -> assignedTo
              [] OTHER -> Undef]]

NullTask == [kind |-> "null", id |-> 0, f |-> [k \in WatchSet |-> Undef]]

\* The strings of the model: "todo", "done", "a", " a", "x", "y", "x y" and
\* the names "A", "B", "a".
sTodo == <<116, 111, 100, 111>>
sDone == <<100, 111, 110, 101>>
sTitle == <<97>>
sTitlePadded == <<32, 97>>
sX == <<120>>
sY == <<121>>
sXspaceY == <<120, 32, 121>>
nameA == <<65>>
nameB == <<66>>
nameLowerA == <<97>>

\* ---------------------------------------------------------------------------
\* Strings: comparison by code units, Array.prototype.sort() without comparator
\* ---------------------------------------------------------------------------
RECURSIVE StrLess(_, _)
StrLess(x, y) ==
  IF y = <<>> THEN FALSE
  ELSE IF x = <<>> THEN TRUE
  ELSE IF Head(x) # Head(y) THEN Head(x) < Head(y)
  ELSE StrLess(Tail(x), Tail(y))

RECURSIVE InsertSorted(_, _)
InsertSorted(x, xs) ==
  IF xs = <<>> THEN <<x>>
  ELSE IF StrLess(x, Head(xs)) THEN <<x>> \o xs
  ELSE <<Head(xs)>> \o InsertSorted(x, Tail(xs))

RECURSIVE SortStrings(_)
SortStrings(xs) ==
  IF xs = <<>> THEN <<>> ELSE InsertSorted(Head(xs), SortStrings(Tail(xs)))

\* ---------------------------------------------------------------------------
\* normalizeTask and jsonStable
\* ---------------------------------------------------------------------------
\* o[f] = t?.[f] for the watched fields; arrays are copied, nothing else is
\* changed (no trimming, no splitting, no deduplication).
normalizeTask(t) ==
  [k \in WatchSet |-> IF t.kind = "null" THEN Undef ELSE t.f[k]]

\* The code units of a property name.
KeyCodes(k) ==
  CASE k = "status" -> <<115, 116, 97, 116, 117, 115>>
    [] k = "title" -> <<116, 105, 116, 108, 101>>
    [] k = "description" -> <<100, 101, 115, 99, 114, 105, 112, 116, 105, 111, 110>>
    [] k = "deadline" -> <<100, 101, 97, 100, 108, 105, 110, 101>>
    [] k = "links" -> <<108, 105, 110, 107, 115>>
    [] k = "assignedTo" -> <<97, 115, 115, 105, 103, 110, 101, 100, 84, 111>>

\* JSON text of a string: the code units between double quotes (the strings of
\* the model hold no character that JSON escapes).
JsonString(cs) == <<34>> \o cs \o <<34>>

RECURSIVE JsonElems(_)
JsonElems(xs) ==
  IF xs = <<>> THEN <<>>
  ELSE IF Len(xs) = 1 THEN JsonString(Head(xs))
  ELSE JsonString(Head(xs)) \o <<44>> \o JsonElems(Tail(xs))

\* Mutant: the replacer returns the array as it is.
SortedCopy_Unsorted(xs) == xs

\* The replacer of jsonStable: an array is replaced by a sorted copy.
SortedCopy(xs) == SortStrings(xs)

\* jsonStable of a field value. JSON.stringify(undefined) is undefined, which
\* is modelled by the empty text (no JSON text is empty).
jsonStableValue(v) ==
  CASE v.t = "undefined" -> <<>>
    [] v.t = "null" -> <<110, 117, 108, 108>>
    [] v.t = "string" -> JsonString(v.s)
    [] v.t = "array" -> <<91>> \o JsonElems(SortedCopy(v.a)) \o <<93>>

\* The members of an object, in insertion order; a member whose value is
\* undefined is left out by JSON.stringify.
RECURSIVE JsonMembers(_, _, _)
JsonMembers(o, i, first) ==
  IF i > Len(WATCH_FIELDS) THEN <<>>
  ELSE LET k == WATCH_FIELDS[i]
       IN IF o[k].t = "undefined" THEN JsonMembers(o, i + 1, first)
          ELSE (IF first THEN <<>> ELSE <<44>>)
               \o JsonString(KeyCodes(k)) \o <<58>> \o jsonStableValue(o[k])
               \o JsonMembers(o, i + 1, FALSE)

\* jsonStable of the record normalizeTask returns.
jsonStable(o) == <<123>> \o JsonMembers(o, 1, TRUE) \o <<125>>

\* ---------------------------------------------------------------------------
\* diffTasks
\* ---------------------------------------------------------------------------
\* Keys of new Map(list.map(t => [t.id, t])): ids in order of first occurrence.
RECURSIVE MapKeys(_, _)
MapKeys(list, seen) ==
  IF list = <<>> THEN <<>>
  ELSE IF Head(list).id \in seen THEN MapKeys(Tail(list), seen)
  ELSE <<Head(list).id>> \o MapKeys(Tail(list), seen \cup {Head(list).id})

\* Map.has / Map.get: a later entry with the same key replaces the value.
MapHas(list, id) == \E i \in DOMAIN list : list[i].id = id

\* Mutant: the first entry with a key keeps its value.
MapGet_FirstWins(list, id) ==
  list[CHOOSE i \in DOMAIN list :
         /\ list[i].id = id
         /\ \A j \in DOMAIN list : list[j].id = id => i <= j]

MapGet(list, id) ==
  list[CHOOSE i \in DOMAIN list :
         /\ list[i].id = id
         /\ \A j \in DOMAIN list : list[j].id = id => j <= i]

\* new Set(seq): the distinct elements in order of first occurrence.
RECURSIVE SetOf(_, _)
SetOf(xs, seen) ==
  IF xs = <<>> THEN <<>>
  ELSE IF Head(xs) \in seen THEN SetOf(Tail(xs), seen)
  ELSE <<Head(xs)>> \o SetOf(Tail(xs), seen \cup {Head(xs)})

\* t.id of a null list element throws a TypeError while the maps are built.
HasNullTask(list) == \E i \in DOMAIN list : list[i].kind = "null"

\* (t?.assignedTo || []).map(String) throws when assignedTo is truthy and has
\* no map method (a non-empty string).
AssignedThrows(list, id) ==
  /\ MapHas(list, id)
  /\ LET v == MapGet(list, id).f["assignedTo"] IN Truthy(v) /\ v.t # "array"

Assigned(list, id) ==
  IF ~MapHas(list, id) THEN <<>>
  ELSE LET v == MapGet(list, id).f["assignedTo"]
       IN IF v.t = "array" THEN v.a ELSE <<>>

\* Mutant: the normalized records are compared as objects, not as JSON text,
\* so two records of a task in both lists never compare equal.
ChangeFor_RefCompare(oldTasks, newTasks, id) ==
  LET hasBefore == MapHas(oldTasks, id)
      hasAfter == MapHas(newTasks, id)
      recipients == SetOf(Assigned(oldTasks, id) \o Assigned(newTasks, id), {})
  IN IF ~hasBefore /\ hasAfter
       THEN <<[type |-> "created", id |-> id, before |-> NullTask,
               after |-> MapGet(newTasks, id), recipients |-> recipients]>>
     ELSE IF hasBefore /\ ~hasAfter
       THEN <<[type |-> "deleted", id |-> id, before |-> MapGet(oldTasks, id),
               after |-> NullTask, recipients |-> recipients]>>
     ELSE <<[type |-> "updated", id |-> id, before |-> MapGet(oldTasks, id),
             after |-> MapGet(newTasks, id), recipients |-> recipients]>>

\* Mutant: a task that is only in the old list is passed over.
ChangeFor_NoDeleted(oldTasks, newTasks, id) ==
  LET hasBefore == MapHas(oldTasks, id)
      hasAfter == MapHas(newTasks, id)
      recipients == SetOf(Assigned(oldTasks, id) \o Assigned(newTasks, id), {})
  IN IF ~hasBefore /\ hasAfter
       THEN <<[type |-> "created", id |-> id, before |-> NullTask,
               after |-> MapGet(newTasks, id), recipients |-> recipients]>>
     ELSE IF hasBefore /\ ~hasAfter
       THEN <<>>
     ELSE IF jsonStable(normalizeTask(MapGet(oldTasks, id)))
             # jsonStable(normalizeTask(MapGet(newTasks, id)))
       THEN <<[type |-> "updated", id |-> id, before |-> MapGet(oldTasks, id),
               after |-> MapGet(newTasks, id), recipients |-> recipients]>>
     ELSE <<>>

\* Mutant: the recipients of a change are the people assigned after the save.
ChangeFor_AfterOnly(oldTasks, newTasks, id) ==
  LET hasBefore == MapHas(oldTasks, id)
      hasAfter == MapHas(newTasks, id)
      recipients == SetOf(Assigned(newTasks, id), {})
  IN IF ~hasBefore /\ hasAfter
       THEN <<[type |-> "created", id |-> id, before |-> NullTask,
               after |-> MapGet(newTasks, id), recipients |-> recipients]>>
     ELSE IF hasBefore /\ ~hasAfter
       THEN <<[type |-> "deleted", id |-> id, before |-> MapGet(oldTasks, id),
               after |-> NullTask, recipients |-> SetOf(Assigned(oldTasks, id), {})]>>
     ELSE IF jsonStable(normalizeTask(MapGet(oldTasks, id)))
             # jsonStable(normalizeTask(MapGet(newTasks, id)))
       THEN <<[type |-> "updated", id |-> id, before |-> MapGet(oldTasks, id),
               after |-> MapGet(newTasks, id), recipients |-> recipients]>>
     ELSE <<>>

\* The change pushed for one id, as a sequence of zero or one change.
ChangeFor(oldTasks, newTasks, id) ==
  LET hasBefore == MapHas(oldTasks, id)
      hasAfter == MapHas(newTasks, id)
      recipients == SetOf(Assigned(oldTasks, id) \o Assigned(newTasks, id), {})
  IN IF ~hasBefore /\ hasAfter
       THEN <<[type |-> "created", id |-> id, before |-> NullTask,
               after |-> MapGet(newTasks, id), recipients |-> recipients]>>
     ELSE IF hasBefore /\ ~hasAfter
       THEN <<[type |-> "deleted", id |-> id, before |-> MapGet(oldTasks, id),
               after |-> NullTask, recipients |-> recipients]>>
     ELSE IF jsonStable(normalizeTask(MapGet(oldTasks, id)))
             # jsonStable(normalizeTask(MapGet(newTasks, id)))
       THEN <<[type |-> "updated", id |-> id, before |-> MapGet(oldTasks, id),
               after |-> MapGet(newTasks, id), recipients |-> recipients]>>
     ELSE <<>>

RECURSIVE DiffLoop(_, _, _)
DiffLoop(oldTasks, newTasks, ids) ==
  IF ids = <<>> THEN <<>>
  ELSE ChangeFor(oldTasks, newTasks, Head(ids))
       \o DiffLoop(oldTasks, newTasks, Tail(ids))

\* The result of a call: err is TRUE when the call throws.
Thrown == [err |-> TRUE, changes |-> <<>>]

diffTasks(oldTasks, newTasks) ==
  IF HasNullTask(oldTasks) \/ HasNullTask(newTasks) THEN Thrown
  ELSE LET allIds == SetOf(MapKeys(oldTasks, {}) \o MapKeys(newTasks, {}), {})
       IN IF \E i \in DOMAIN allIds :
               AssignedThrows(oldTasks, allIds[i]) \/ AssignedThrows(newTasks, allIds[i])
            THEN Thrown
          ELSE [err |-> FALSE, changes |-> DiffLoop(oldTasks, newTasks, allIds)]

\* ---------------------------------------------------------------------------
\* buildMailTextForRecipient
\* ---------------------------------------------------------------------------
\* JSON.stringify of a field value inside a template literal: no replacer, so
\* an array keeps its order; undefined is written as the word undefined.
JsonText(v) ==
  CASE v.t = "undefined" -> <<117, 110, 100, 101, 102, 105, 110, 101, 100>>
    [] v.t = "null" -> <<110, 117, 108, 108>>
    [] v.t = "string" -> JsonString(v.s)
    [] v.t = "array" -> <<91>> \o JsonElems(v.a) \o <<93>>

\* Array.prototype.join(",")
RECURSIVE Join(_)
Join(xs) ==
  IF xs = <<>> THEN <<>>
  ELSE IF Len(xs) = 1 THEN Head(xs)
  ELSE Head(xs) \o <<44>> \o Join(Tail(xs))

\* ${v || placeholder}
TemplateText(v, placeholder) ==
  IF ~Truthy(v) THEN placeholder
  ELSE IF v.t = "array" THEN Join(v.a)
  ELSE v.s

\* "(no title)" and "-"
NoTitle == <<40, 110, 111, 32, 116, 105, 116, 108, 101, 41>>
Dash == <<45>>

\* Mutant: only the four text fields are compared, links and assignedTo are not.
RECURSIVE FieldDeltas_ScalarOnly(_, _)
FieldDeltas_ScalarOnly(c, i) ==
  IF i > 4 THEN <<>>
  ELSE LET f == WATCH_FIELDS[i]
           bv == normalizeTask(c.before)[f]
           av == normalizeTask(c.after)[f]
       IN (IF jsonStableValue(bv) # jsonStableValue(av)
             THEN <<[field |-> f, from |-> JsonText(bv), to |-> JsonText(av)]>>
             ELSE <<>>)
          \o FieldDeltas_ScalarOnly(c, i + 1)

\* The lines "  - field: old  ->  new" of an updated change, for the watched
\* fields from index i.
RECURSIVE FieldDeltas(_, _)
FieldDeltas(c, i) ==
  IF i > Len(WATCH_FIELDS) THEN <<>>
  ELSE LET f == WATCH_FIELDS[i]
           bv == normalizeTask(c.before)[f]
           av == normalizeTask(c.after)[f]
       IN (IF jsonStableValue(bv) # jsonStableValue(av)
             THEN <<[field |-> f, from |-> JsonText(bv), to |-> JsonText(av)]>>
             ELSE <<>>)
          \o FieldDeltas(c, i + 1)

\* The block of lines of one change.
MailBlock(c) ==
  CASE c.type = "created" ->
         [head |-> "NEW", id |-> c.id,
          title |-> TemplateText(normalizeTask(c.after)["title"], NoTitle),
          status |-> TemplateText(normalizeTask(c.after)["status"], Dash),
          deadline |-> TemplateText(normalizeTask(c.after)["deadline"], Dash),
          deltas |-> <<>>]
    [] c.type = "deleted" ->
         [head |-> "DELETED", id |-> c.id,
          title |-> TemplateText(normalizeTask(c.before)["title"], NoTitle),
          status |-> <<>>, deadline |-> <<>>, deltas |-> <<>>]
    [] OTHER ->
         [head |-> "UPDATED", id |-> c.id,
          title |-> IF Truthy(normalizeTask(c.after)["title"])
                      THEN TemplateText(normalizeTask(c.after)["title"], NoTitle)
                      ELSE TemplateText(normalizeTask(c.before)["title"], NoTitle),
          status |-> <<>>, deadline |-> <<>>,
          deltas |-> FieldDeltas(c, 1)]

\* The text of a mail: the editor line and one block for each change.
EditorLine(editorName, editorEmail) ==
  IF editorName # "" \/ editorEmail # ""
    THEN [name |-> IF editorName # "" THEN editorName ELSE "-", email |-> editorEmail]
    ELSE [name |-> "(unknown)", email |-> ""]

buildMailTextForRecipient(recipientName, recipientEmail, changes, editorName, editorEmail) ==
  [editor |-> EditorLine(editorName, editorEmail),
   blocks |-> [i \in DOMAIN changes |-> MailBlock(changes[i])]]

\* ---------------------------------------------------------------------------
\* State
\* ---------------------------------------------------------------------------
VARIABLES
  smtpConfigured,  \* SMTP_HOST, SMTP_PORT, SMTP_USER and SMTP_PASS are all set
  pendingByEmail,  \* email -> [recipientName, changes, timer, editorName, editorEmail]
  timers,          \* the timeouts that are set and have not fired: [id, email, left]
  nextTimer,       \* the handle the next setTimeout returns
  mails,           \* the calls of transporter.sendMail, in order, with their outcome
  calls,           \* history: number of saves that queued changes so far
  enq,             \* history: email -> every change ever queued for it, in order
  burst,           \* history: email -> the queueMail calls since its last flush
  since,           \* history: email -> minutes since its last queueMail (capped)
  dOld, dNew,      \* the arguments of a diffTasks call
  dPc, dOut,       \* whether diffTasks has returned, and its result
  dText,           \* the mail text rendered for the changes of dOut
  rDir, rName,     \* a resolveEmailForName call: TEAM_EMAILS and the name passed
  rPc, rOut,       \* whether the call has returned, and what it returned
  mailQueue,       \* src/server.js: email -> [timer, items, lastEditor]
  tokenStore,      \* token -> expiresAt
  now,             \* Date.now(), in units of half an hour
  authVariant,     \* the file whose requireEditor runs
  issued,          \* history: the tokens POST /api/auth has handed out
  lastAuth,        \* the response of the last request that went through
                   \* POST /api/auth or requireEditor: [route, token, at, status]
  store,           \* record.tasks of the bin at jsonbin
  reqs             \* the PUT /api/data requests: [pc, body, loaded, oldTasks, editor,
                   \* written, changes, res]

vars == <<smtpConfigured, pendingByEmail, timers, nextTimer, mails, calls, enq,
          burst, since, dOld, dNew, dPc, dOut, dText, rDir, rName, rPc, rOut,
          mailQueue, tokenStore, now, authVariant, issued, lastAuth, store, reqs>>

aggVars == <<smtpConfigured, pendingByEmail, timers, nextTimer, mails, calls,
             enq, burst, since>>

diffVars == <<dOld, dNew, dPc, dOut, dText>>

resolveVars == <<rDir, rName, rPc, rOut>>

queueVars == <<mailQueue>>

authVars == <<tokenStore, now, authVariant, issued, lastAuth>>

saveVars == <<store, reqs>>

\* MAIL_DEBOUNCE_MINUTES is read from the environment; the unit of time of the
\* model is the minute.
MAIL_DEBOUNCE_MINUTES == 2

MaxCalls == 2

Emails == {"a@x", "b@x"}

\* A missing address (null or "").
NoEmail == ""

\* The x-editor-name / x-editor-email headers of a save ("" when not sent).
Editors == {<<"", "">>, <<"Ed", "ed@x">>, <<"Bo", "">>}

Min(a, b) == IF a < b THEN a ELSE b

\* ---------------------------------------------------------------------------
\* queueMail
\* ---------------------------------------------------------------------------
\* The part of the state queueMail and sendDebouncedMail work on.
Agg(p, t, n) == [pending |-> p, timers |-> t, nextTimer |-> n]

\* setTimeout(() => sendDebouncedMail(email), MAIL_DEBOUNCE_MINUTES * 60 * 1000)
SetTimeout(ts, id, email) ==
  ts \cup {[id |-> id, email |-> email, left |-> MAIL_DEBOUNCE_MINUTES]}

\* Mutant: one timer slot for the whole queue, clearing it clears every timeout.
ClearTimeout_All(ts, id) == {}

ClearTimeout(ts, id) == {t \in ts : t.id # id}

\* a || b on strings
OrElse(a, b) == IF a # "" THEN a ELSE b

\* Mutant: an extension leaves the running timeout alone (fixed window).
queueMail_FixedWindow(ag, recipientName, recipientEmail, changes, editorName, editorEmail) ==
  IF recipientEmail = NoEmail THEN ag
  ELSE IF recipientEmail \notin DOMAIN ag.pending
    THEN Agg(ag.pending @@ (recipientEmail :>
                 [recipientName |-> recipientName, changes |-> changes,
                  timer |-> ag.nextTimer, editorName |-> editorName,
                  editorEmail |-> editorEmail]),
             SetTimeout(ag.timers, ag.nextTimer, recipientEmail),
             ag.nextTimer + 1)
  ELSE LET existing == ag.pending[recipientEmail]
       IN Agg([ag.pending EXCEPT ![recipientEmail] =
                 [recipientName |-> existing.recipientName,
                  changes |-> existing.changes \o changes,
                  timer |-> existing.timer,
                  editorName |-> OrElse(editorName, existing.editorName),
                  editorEmail |-> OrElse(editorEmail, existing.editorEmail)]],
              ag.timers, ag.nextTimer)

\* Mutant: an extension sets the new timeout without clearing the old one.
queueMail_NoClear(ag, recipientName, recipientEmail, changes, editorName, editorEmail) ==
  IF recipientEmail = NoEmail THEN ag
  ELSE IF recipientEmail \notin DOMAIN ag.pending
    THEN Agg(ag.pending @@ (recipientEmail :>
                 [recipientName |-> recipientName, changes |-> changes,
                  timer |-> ag.nextTimer, editorName |-> editorName,
                  editorEmail |-> editorEmail]),
             SetTimeout(ag.timers, ag.nextTimer, recipientEmail),
             ag.nextTimer + 1)
  ELSE LET existing == ag.pending[recipientEmail]
       IN Agg([ag.pending EXCEPT ![recipientEmail] =
                 [recipientName |-> existing.recipientName,
                  changes |-> existing.changes \o changes,
                  timer |-> ag.nextTimer,
                  editorName |-> OrElse(editorName, existing.editorName),
                  editorEmail |-> OrElse(editorEmail, existing.editorEmail)]],
              SetTimeout(ag.timers, ag.nextTimer, recipientEmail),
              ag.nextTimer + 1)

\* Mutant: an extension puts the new changes in front of the buffered ones.
queueMail_Prepend(ag, recipientName, recipientEmail, changes, editorName, editorEmail) ==
  IF recipientEmail = NoEmail THEN ag
  ELSE IF recipientEmail \notin DOMAIN ag.pending
    THEN Agg(ag.pending @@ (recipientEmail :>
                 [recipientName |-> recipientName, changes |-> changes,
                  timer |-> ag.nextTimer, editorName |-> editorName,
                  editorEmail |-> editorEmail]),
             SetTimeout(ag.timers, ag.nextTimer, recipientEmail),
             ag.nextTimer + 1)
  ELSE LET existing == ag.pending[recipientEmail]
       IN Agg([ag.pending EXCEPT ![recipientEmail] =
                 [recipientName |-> existing.recipientName,
                  changes |-> changes \o existing.changes,
                  timer |-> ag.nextTimer,
                  editorName |-> OrElse(editorName, existing.editorName),
                  editorEmail |-> OrElse(editorEmail, existing.editorEmail)]],
              SetTimeout(ClearTimeout(ag.timers, existing.timer), ag.nextTimer,
                         recipientEmail),
              ag.nextTimer + 1)

queueMail(ag, recipientName, recipientEmail, changes, editorName, editorEmail) ==
  IF recipientEmail = NoEmail THEN ag
  ELSE IF recipientEmail \notin DOMAIN ag.pending
    THEN Agg(ag.pending @@ (recipientEmail :>
                 [recipientName |-> recipientName, changes |-> changes,
                  timer |-> ag.nextTimer, editorName |-> editorName,
                  editorEmail |-> editorEmail]),
             SetTimeout(ag.timers, ag.nextTimer, recipientEmail),
             ag.nextTimer + 1)
  ELSE LET existing == ag.pending[recipientEmail]
       IN Agg([ag.pending EXCEPT ![recipientEmail] =
                 [recipientName |-> existing.recipientName,
                  changes |-> existing.changes \o changes,
                  timer |-> ag.nextTimer,
                  editorName |-> OrElse(editorName, existing.editorName),
                  editorEmail |-> OrElse(editorEmail, existing.editorEmail)]],
              SetTimeout(ClearTimeout(ag.timers, existing.timer), ag.nextTimer,
                         recipientEmail),
              ag.nextTimer + 1)

\* ---------------------------------------------------------------------------
\* sendDebouncedMail
\* ---------------------------------------------------------------------------
Remove(p, email) == [e \in DOMAIN p \ {email} |-> p[e]]

\* The argument of transporter.sendMail: the subject carries the number of
\* changes, the text one block per change and the editor line.
MailFor(email, entry) ==
  [to |-> email, count |-> Len(entry.changes), changes |-> entry.changes,
   editorName |-> entry.editorName, editorEmail |-> entry.editorEmail,
   result |-> "inflight"]

\* Mutant: the entry stays in the table while the mail is being sent.
sendDebouncedMail_NoDelete(p, ms, smtp, email) ==
  IF email \notin DOMAIN p THEN [pending |-> p, mails |-> ms]
  ELSE IF ~smtp THEN [pending |-> Remove(p, email), mails |-> ms]
  ELSE [pending |-> p, mails |-> Append(ms, MailFor(email, p[email]))]

\* Mutant: the transport is used whether or not SMTP is configured.
sendDebouncedMail_IgnoreSmtp(p, ms, smtp, email) ==
  IF email \notin DOMAIN p THEN [pending |-> p, mails |-> ms]
  ELSE [pending |-> Remove(p, email), mails |-> Append(ms, MailFor(email, p[email]))]

\* The synchronous part of sendDebouncedMail, up to the await: the pending
\* table and the list of sendMail calls after it.
sendDebouncedMail(p, ms, smtp, email) ==
  IF email \notin DOMAIN p THEN [pending |-> p, mails |-> ms]
  ELSE IF ~smtp THEN [pending |-> Remove(p, email), mails |-> ms]
  ELSE [pending |-> Remove(p, email), mails |-> Append(ms, MailFor(email, p[email]))]

\* ---------------------------------------------------------------------------
\* The mail queue on its own: queueMail calls, timers, the mailer
\* ---------------------------------------------------------------------------
RecipientNameOf(email) == IF email = "a@x" THEN "A" ELSE "B"

\* The changes a save passes: new objects, told apart by the save that made
\* them; odd saves pass two changes, even saves one.
NewChanges(n) == [i \in 1..(IF n % 2 = 1 THEN 2 ELSE 1) |-> [src |-> n, k |-> i]]

\* The addresses the changes of one save resolve to, in the order of the
\* groups of perRecipient.
Targets == {<<"a@x">>, <<"b@x">>, <<"a@x", "b@x">>}

InSeq(xs, x) == \E i \in DOMAIN xs : xs[i] = x

\* for (const [email, payload] of perRecipient.entries()) queueMail(...),
\* every group holding the same changes.
RECURSIVE QueueEach(_, _, _, _, _)
QueueEach(ag, emails, changes, editorName, editorEmail) ==
  IF emails = <<>> THEN ag
  ELSE QueueEach(queueMail(ag, RecipientNameOf(Head(emails)), Head(emails), changes,
                           editorName, editorEmail),
                 Tail(emails), changes, editorName, editorEmail)

AggInit ==
  /\ smtpConfigured \in BOOLEAN
  /\ pendingByEmail = <<>>
  /\ timers = {}
  /\ nextTimer = 1
  /\ mails = <<>>
  /\ calls = 0
  /\ enq = [e \in Emails |-> <<>>]
  /\ burst = [e \in Emails |-> <<>>]
  /\ since = [e \in Emails |-> MAIL_DEBOUNCE_MINUTES]

DiffIdle ==
  /\ dOld = <<>>
  /\ dNew = <<>>
  /\ dPc = "done"
  /\ dOut = [err |-> FALSE, changes |-> <<>>]
  /\ dText = [editor |-> EditorLine("", ""), blocks |-> <<>>]

QueueIdle == mailQueue = <<>>

\* No request has gone through POST /api/auth or requireEditor yet.
NoResponse == [route |-> "none", token |-> <<>>, at |-> 0, status |-> 0]

AuthIdle ==
  /\ tokenStore = <<>>
  /\ now = 0
  /\ authVariant = "part_000"
  /\ issued = {}
  /\ lastAuth = NoResponse

ResolveIdle ==
  /\ rDir = <<>>
  /\ rName = <<>>
  /\ rPc = "done"
  /\ rOut = NoEmail

MaxReqs == 2

NewReq ==
  [pc |-> "new", body |-> <<>>, loaded |-> FALSE, oldTasks |-> <<>>,
   editor |-> <<"", "">>, written |-> FALSE, changes |-> <<>>, res |-> "none"]

SaveIdle ==
  /\ store = <<>>
  /\ reqs = [r \in 1..MaxReqs |-> NewReq]

Init == AggInit /\ DiffIdle /\ ResolveIdle /\ QueueIdle /\ AuthIdle /\ SaveIdle

\* The queueMail calls of one save, one call for each address its changes
\* resolve to.
QueueMail(emails, ed) ==
  /\ calls < MaxCalls
  /\ LET changes == NewChanges(calls + 1)
         ag == QueueEach(Agg(pendingByEmail, timers, nextTimer), emails, changes,
                         ed[1], ed[2])
     IN /\ pendingByEmail' = ag.pending
        /\ timers' = ag.timers
        /\ nextTimer' = ag.nextTimer
        /\ enq' = [e \in Emails |-> IF InSeq(emails, e) THEN enq[e] \o changes ELSE enq[e]]
        /\ burst' = [e \in Emails |->
                       IF InSeq(emails, e)
                         THEN Append(burst[e], [changes |-> changes, editorName |-> ed[1],
                                                editorEmail |-> ed[2]])
                         ELSE burst[e]]
        /\ since' = [e \in Emails |-> IF InSeq(emails, e) THEN 0 ELSE since[e]]
  /\ calls' = calls + 1
  /\ UNCHANGED <<smtpConfigured, mails>>
  /\ UNCHANGED diffVars
  /\ UNCHANGED saveVars
  /\ UNCHANGED resolveVars
  /\ UNCHANGED queueVars
  /\ UNCHANGED authVars

\* A timeout that is due fires: its callback runs sendDebouncedMail up to the
\* await of transporter.sendMail.
TimerFire(tm) ==
  /\ tm \in timers
  /\ tm.left = 0
  /\ LET r == sendDebouncedMail(pendingByEmail, mails, smtpConfigured, tm.email)
     IN /\ pendingByEmail' = r.pending
        /\ mails' = r.mails
  /\ timers' = timers \ {tm}
  /\ burst' = [burst EXCEPT ![tm.email] = <<>>]
  /\ UNCHANGED <<smtpConfigured, nextTimer, calls, enq, since>>
  /\ UNCHANGED diffVars
  /\ UNCHANGED saveVars
  /\ UNCHANGED resolveVars
  /\ UNCHANGED queueVars
  /\ UNCHANGED authVars

\* Mutant: a rejected send queues its changes again.
SendDone_Retry(i, ok) ==
  /\ i \in DOMAIN mails
  /\ mails[i].result = "inflight"
  /\ mails' = [mails EXCEPT ![i].result = IF ok THEN "ok" ELSE "fail"]
  /\ LET m == mails[i]
         ag == IF ok THEN Agg(pendingByEmail, timers, nextTimer)
               ELSE queueMail(Agg(pendingByEmail, timers, nextTimer),
                              RecipientNameOf(m.to), m.to, m.changes,
                              m.editorName, m.editorEmail)
     IN /\ pendingByEmail' = ag.pending
        /\ timers' = ag.timers
        /\ nextTimer' = ag.nextTimer
  /\ UNCHANGED <<smtpConfigured, calls, enq, burst, since>>
  /\ UNCHANGED diffVars
  /\ UNCHANGED saveVars
  /\ UNCHANGED resolveVars
  /\ UNCHANGED queueVars
  /\ UNCHANGED authVars

\* transporter.sendMail settles: resolved (logged "sent OK") or rejected
\* (caught and logged "send FAIL"); nothing else is done with the outcome.
SendDone(i, ok) ==
  /\ i \in DOMAIN mails
  /\ mails[i].result = "inflight"
  /\ mails' = [mails EXCEPT ![i].result = IF ok THEN "ok" ELSE "fail"]
  /\ UNCHANGED <<smtpConfigured, pendingByEmail, timers, nextTimer, calls, enq,
                 burst, since>>
  /\ UNCHANGED diffVars
  /\ UNCHANGED saveVars
  /\ UNCHANGED resolveVars
  /\ UNCHANGED queueVars
  /\ UNCHANGED authVars

\* A minute passes. A timeout never fires early; it may fire late.
Tick ==
  /\ \/ \E e \in Emails : since[e] < MAIL_DEBOUNCE_MINUTES
     \/ \E t \in timers : t.left > 0
  /\ timers' = {[t EXCEPT !.left = IF t.left > 0 THEN t.left - 1 ELSE 0] : t \in timers}
  /\ since' = [e \in Emails |-> Min(since[e] + 1, MAIL_DEBOUNCE_MINUTES)]
  /\ UNCHANGED <<smtpConfigured, pendingByEmail, nextTimer, mails, calls, enq, burst>>
  /\ UNCHANGED diffVars
  /\ UNCHANGED saveVars
  /\ UNCHANGED resolveVars
  /\ UNCHANGED queueVars
  /\ UNCHANGED authVars

Next ==
  \/ \E emails \in Targets, ed \in Editors : QueueMail(emails, ed)
  \/ \E tm \in timers : TimerFire(tm)
  \/ \E i \in DOMAIN mails, ok \in BOOLEAN : SendDone(i, ok)
  \/ Tick

Spec == Init /\ [][Next]_vars

\* ---------------------------------------------------------------------------
\* resolveEmailForName
\* ---------------------------------------------------------------------------
\* TEAM_EMAILS_JSON, in key order.
TEAM_EMAILS == <<[name |-> nameA, email |-> "a@x"], [name |-> nameB, email |-> "b@x"]>>

\* String.prototype.toLowerCase on the letters A..Z.
toLowerCase(cs) ==
  [i \in DOMAIN cs |-> IF cs[i] >= 65 /\ cs[i] <= 90 THEN cs[i] + 32 ELSE cs[i]]

\* "constructor" and "toString": names of members of Object.prototype.
sConstructor == <<99, 111, 110, 115, 116, 114, 117, 99, 116, 111, 114>>
sToString == <<116, 111, 83, 116, 114, 105, 110, 103>>

ObjectPrototypeKeys == {sConstructor, sToString}

\* What TEAM_EMAILS[name] gives for a member inherited from Object.prototype:
\* a function, which is truthy and is no address.
InheritedFunction == "[Function]"

HasOwn(directory, name) == \E i \in DOMAIN directory : directory[i].name = name

\* TEAM_EMAILS[name]: the own property, else the member inherited from
\* Object.prototype, else undefined (falsy, like a missing address).
PropertyGet(directory, name) ==
  IF HasOwn(directory, name)
    THEN directory[CHOOSE i \in DOMAIN directory : directory[i].name = name].email
  ELSE IF name \in ObjectPrototypeKeys THEN InheritedFunction
  ELSE NoEmail

\* Array.prototype.find: the first key that matches, 0 for none.
FindKey(directory, name) ==
  LET hits == {i \in DOMAIN directory :
                 toLowerCase(directory[i].name) = toLowerCase(name)}
  IN IF hits = {} THEN 0 ELSE CHOOSE i \in hits : \A j \in hits : i <= j

\* resolveEmailForName with the directory it reads (the module variable
\* TEAM_EMAILS) as an argument.
resolveEmailForNameIn(directory, name) ==
  IF name = <<>> THEN NoEmail
  ELSE IF PropertyGet(directory, name) # NoEmail
    THEN PropertyGet(directory, name)
  ELSE IF FindKey(directory, name) # 0
    THEN directory[FindKey(directory, name)].email
  ELSE NoEmail

resolveEmailForName(name) == resolveEmailForNameIn(TEAM_EMAILS, name)

\* ---------------------------------------------------------------------------
\* PUT /api/data
\* ---------------------------------------------------------------------------
\* perRecipient: the groups [email, name, changes] in insertion order.
GroupIndex(groups, email) ==
  IF \E i \in DOMAIN groups : groups[i].email = email
    THEN CHOOSE i \in DOMAIN groups : groups[i].email = email
    ELSE 0

\* One pass of the inner loop: change c for the recipient names from index i.
RECURSIVE GroupNames(_, _, _, _)
GroupNames(groups, c, names, i) ==
  IF i > Len(names) THEN groups
  ELSE LET email == resolveEmailForName(names[i])
           at == GroupIndex(groups, email)
       IN IF email = NoEmail THEN GroupNames(groups, c, names, i + 1)
          ELSE IF at = 0
            THEN GroupNames(Append(groups, [email |-> email, name |-> names[i],
                                            changes |-> <<c>>]),
                            c, names, i + 1)
          ELSE GroupNames([groups EXCEPT ![at].changes = Append(@, c)],
                          c, names, i + 1)

RECURSIVE PerRecipient(_, _)
PerRecipient(groups, changes) ==
  IF changes = <<>> THEN groups
  ELSE PerRecipient(GroupNames(groups, Head(changes), Head(changes).recipients, 1),
                    Tail(changes))

\* for (const [email, payload] of perRecipient.entries()) queueMail(...)
RECURSIVE QueueAll(_, _, _, _)
QueueAll(ag, groups, editorName, editorEmail) ==
  IF groups = <<>> THEN ag
  ELSE QueueAll(queueMail(ag, Head(groups).name, Head(groups).email,
                          Head(groups).changes, editorName, editorEmail),
                Tail(groups), editorName, editorEmail)

GroupChanges(groups, email) ==
  IF GroupIndex(groups, email) = 0 THEN <<>>
  ELSE groups[GroupIndex(groups, email)].changes

\* The request bodies of the model: body.tasks.
Bodies ==
  {<<>>,
   <<Task(1, Str(sTodo), Str(sTitle), Undef, Arr(<<nameA>>))>>,
   <<Task(1, Str(sDone), Str(sTitle), Undef, Arr(<<nameA, nameB>>))>>,
   <<Task(1, Str(sDone), Str(sTitle), Undef, Arr(<<nameA, nameLowerA>>))>>,
   <<Task(1, Str(sTodo), Str(sTitle), Undef, Str(nameA))>>,
   <<NullTask>>,
   <<Task(1, Str(sTodo), Str(sTitle), Undef, Arr(<<nameA>>)),
     Task(2, Str(sTodo), Str(sTitle), Undef, Arr(<<nameB>>)),
     Task(2, Str(sDone), Str(sTitle), Undef, Undef)>>}

\* The editor headers of the save requests of the model: none, or a name and
\* an address.
SaveEditors == {<<"", "">>, <<"Ed", "ed@x">>}

InitSave == AggInit /\ DiffIdle /\ ResolveIdle /\ QueueIdle /\ AuthIdle /\ SaveIdle

\* The request passed requireEditor; the handler runs up to the await of the
\* fetch that loads the old data.
SaveRequest(r, body, ed) ==
  /\ reqs[r].pc = "new"
  /\ \A q \in 1..(r - 1) : reqs[q].pc # "new"
  /\ reqs' = [reqs EXCEPT ![r] = [@ EXCEPT !.pc = "loading", !.body = body, !.editor = ed]]
  /\ UNCHANGED store
  /\ UNCHANGED aggVars
  /\ UNCHANGED diffVars
  /\ UNCHANGED resolveVars
  /\ UNCHANGED queueVars
  /\ UNCHANGED authVars

\* Mutant: a load that fails ends the request with status 502.
LoadOld_Abort(r, ok) ==
  /\ reqs[r].pc = "loading"
  /\ reqs' = [reqs EXCEPT ![r] =
                [@ EXCEPT !.pc = IF ok THEN "saving" ELSE "done", !.loaded = ok,
                          !.oldTasks = IF ok THEN store ELSE <<>>,
                          !.res = IF ok THEN "none" ELSE "502"]]
  /\ UNCHANGED store
  /\ UNCHANGED aggVars
  /\ UNCHANGED diffVars
  /\ UNCHANGED resolveVars
  /\ UNCHANGED queueVars
  /\ UNCHANGED authVars

\* The load settles: oldTasks is record.tasks of the bin, or [] when the
\* response is not ok or the fetch throws. The handler goes on to the await of
\* the fetch that saves.
LoadOld(r, ok) ==
  /\ reqs[r].pc = "loading"
  /\ reqs' = [reqs EXCEPT ![r] =
                [@ EXCEPT !.pc = "saving", !.loaded = ok,
                          !.oldTasks = IF ok THEN store ELSE <<>>]]
  /\ UNCHANGED store
  /\ UNCHANGED aggVars
  /\ UNCHANGED diffVars
  /\ UNCHANGED resolveVars
  /\ UNCHANGED queueVars
  /\ UNCHANGED authVars

\* Mutant: the handler does not look at r.ok; only a fetch that throws ends
\* the request.
StoreWrite_IgnoreStatus(r, outcome) ==
  /\ reqs[r].pc = "saving"
  /\ IF outcome = "ok"
       THEN /\ store' = reqs[r].body
            /\ reqs' = [reqs EXCEPT ![r] = [@ EXCEPT !.pc = "written", !.written = TRUE]]
       ELSE /\ store' = store
            /\ reqs' = [reqs EXCEPT ![r] =
                          [@ EXCEPT !.pc = IF outcome = "notok" THEN "written" ELSE "done",
                                    !.res = IF outcome = "notok" THEN "none" ELSE "500"]]
  /\ UNCHANGED aggVars
  /\ UNCHANGED diffVars
  /\ UNCHANGED resolveVars
  /\ UNCHANGED queueVars
  /\ UNCHANGED authVars

\* The PUT reaches jsonbin: outcome "ok" replaces the bin; "notok" is a
\* response that is not ok (502), "throw" a fetch that throws (500).
StoreWrite(r, outcome) ==
  /\ reqs[r].pc = "saving"
  /\ IF outcome = "ok"
       THEN /\ store' = reqs[r].body
            /\ reqs' = [reqs EXCEPT ![r] = [@ EXCEPT !.pc = "written", !.written = TRUE]]
       ELSE /\ store' = store
            /\ reqs' = [reqs EXCEPT ![r] =
                          [@ EXCEPT !.pc = "done",
                                    !.res = IF outcome = "notok" THEN "502" ELSE "500"]]
  /\ UNCHANGED aggVars
  /\ UNCHANGED diffVars
  /\ UNCHANGED resolveVars
  /\ UNCHANGED queueVars
  /\ UNCHANGED authVars

\* The handler continues after the successful save: diffTasks, perRecipient,
\* queueMail for every group, res.json({ok: true}); an exception on the way
\* is caught and answered with status 500.
SaveFinish(r) ==
  /\ reqs[r].pc = "written"
  /\ LET d == diffTasks(reqs[r].oldTasks, reqs[r].body)
         groups == PerRecipient(<<>>, d.changes)
         ed == reqs[r].editor
         ag == QueueAll(Agg(pendingByEmail, timers, nextTimer), groups, ed[1], ed[2])
         hit == {groups[i].email : i \in DOMAIN groups}
     IN IF d.err
          THEN /\ reqs' = [reqs EXCEPT ![r] = [@ EXCEPT !.pc = "done", !.res = "500"]]
               /\ UNCHANGED <<pendingByEmail, timers, nextTimer, calls, enq, burst, since>>
          ELSE /\ reqs' = [reqs EXCEPT ![r] = [@ EXCEPT !.pc = "done", !.res = "ok",
                                                        !.changes = d.changes]]
               /\ pendingByEmail' = ag.pending
               /\ timers' = ag.timers
               /\ nextTimer' = ag.nextTimer
               /\ calls' = calls + 1
               /\ enq' = [e \in Emails |-> enq[e] \o GroupChanges(groups, e)]
               /\ burst' = [e \in Emails |->
                              IF e \in hit
                                THEN Append(burst[e],
                                            [changes |-> GroupChanges(groups, e),
                                             editorName |-> ed[1], editorEmail |-> ed[2]])
                                ELSE burst[e]]
               /\ since' = [e \in Emails |-> IF e \in hit THEN 0 ELSE since[e]]
  /\ UNCHANGED <<smtpConfigured, mails, store>>
  /\ UNCHANGED diffVars
  /\ UNCHANGED resolveVars
  /\ UNCHANGED queueVars
  /\ UNCHANGED authVars

NextSave ==
  \/ \E r \in 1..MaxReqs, body \in Bodies, ed \in SaveEditors : SaveRequest(r, body, ed)
  \/ \E r \in 1..MaxReqs, ok \in BOOLEAN : LoadOld(r, ok)
  \/ \E r \in 1..MaxReqs, outcome \in {"ok", "notok", "throw"} : StoreWrite(r, outcome)
  \/ \E r \in 1..MaxReqs : SaveFinish(r)
  \/ \E tm \in timers : TimerFire(tm)
  \/ \E i \in DOMAIN mails, ok \in BOOLEAN : SendDone(i, ok)
  \/ Tick

SpecSave == InitSave /\ [][NextSave]_vars

\* ---------------------------------------------------------------------------
\* Vocabulary of the claims about the mail queue
\* ---------------------------------------------------------------------------
\* The changes of a sequence of queueMail calls, concatenated in call order.
RECURSIVE BurstChanges(_)
BurstChanges(b) ==
  IF b = <<>> THEN <<>> ELSE Head(b).changes \o BurstChanges(Tail(b))

\* The changes of the sendMail calls for one address, in call order.
RECURSIVE SentTo(_, _)
SentTo(ms, e) ==
  IF ms = <<>> THEN <<>>
  ELSE (IF Head(ms).to = e THEN Head(ms).changes ELSE <<>>) \o SentTo(Tail(ms), e)

PendingChanges(e) ==
  IF e \in DOMAIN pendingByEmail THEN pendingByEmail[e].changes ELSE <<>>

Occurrences(xs, x) == Cardinality({i \in DOMAIN xs : xs[i] = x})

\* The step flushes address e: the timer of e fired (its calls since the last
\* flush are forgotten).
FlushOf(e) == burst[e] # <<>> /\ burst'[e] = <<>>

\* The step calls transporter.sendMail for address e.
MailerCalledFor(e) ==
  /\ Len(mails') > Len(mails)
  /\ mails'[Len(mails')].to = e

\* The step calls transporter.sendMail exactly once, for e, with these changes.
SendsExactly(e, changes) ==
  /\ Len(mails') = Len(mails) + 1
  /\ SubSeq(mails', 1, Len(mails)) = mails
  /\ mails'[Len(mails')].to = e
  /\ mails'[Len(mails')].changes = changes
  /\ mails'[Len(mails')].count = Len(changes)

TimersOf(e) == {t \in timers : t.email = e}

\* The editor a sequence of calls leaves behind when the first call creates
\* the entry: each later non-empty header replaces the older one.
RECURSIVE EditorNameAfter(_, _)
EditorNameAfter(b, cur) ==
  IF b = <<>> THEN cur
  ELSE EditorNameAfter(Tail(b), OrElse(Head(b).editorName, cur))

RECURSIVE EditorEmailAfter(_, _)
EditorEmailAfter(b, cur) ==
  IF b = <<>> THEN cur
  ELSE EditorEmailAfter(Tail(b), OrElse(Head(b).editorEmail, cur))

\* ---------------------------------------------------------------------------
\* C1
\* ---------------------------------------------------------------------------
\* C1 (as claimed): sendMail is called for an address only when its timer
\* fires, never before MAIL_DEBOUNCE_MINUTES have passed since the last
\* queueMail for it, and the flush of a burst of queueMail calls then calls
\* sendMail exactly once with the changes of all calls of the burst.
C1_AsClaimed ==
  [][\A e \in Emails :
       /\ MailerCalledFor(e) => FlushOf(e) /\ since[e] >= MAIL_DEBOUNCE_MINUTES
       /\ FlushOf(e) =>
            /\ since[e] >= MAIL_DEBOUNCE_MINUTES
            /\ SendsExactly(e, BurstChanges(burst[e]))]_vars

\* C1 (amended): as above, but the flush of the burst calls sendMail exactly
\* once with the changes of all calls only if SMTP is configured; if it is
\* not, the flush calls sendMail zero times.
C1_SlidingWindow ==
  [][\A e \in Emails :
       /\ MailerCalledFor(e) => FlushOf(e) /\ since[e] >= MAIL_DEBOUNCE_MINUTES
       /\ FlushOf(e) =>
            /\ since[e] >= MAIL_DEBOUNCE_MINUTES
            /\ IF smtpConfigured
                 THEN SendsExactly(e, BurstChanges(burst[e]))
                 ELSE mails' = mails]_vars

\* A digest that holds the changes of two queueMail calls has been handed to
\* the mailer.
C1_Witness ==
  \E i \in DOMAIN mails :
    \E j, k \in DOMAIN mails[i].changes :
      mails[i].changes[j].src # mails[i].changes[k].src

\* ---------------------------------------------------------------------------
\* C2
\* ---------------------------------------------------------------------------
\* C2: while a sendMail call for an address is in flight, every change ever
\* queued for the address is in exactly one place, in order: in one of the
\* digests handed to the mailer or in the pending entry; a pending entry holds
\* exactly the changes of the calls made after the removal and owns a live
\* timer of its own.
C2_FlushRemovesFirst ==
  \A i \in DOMAIN mails :
    mails[i].result = "inflight" =>
      LET e == mails[i].to
      IN /\ enq[e] = SentTo(mails, e) \o PendingChanges(e)
         /\ \A x \in {enq[e][j] : j \in DOMAIN enq[e]} : Occurrences(enq[e], x) = 1
         /\ e \in DOMAIN pendingByEmail =>
              /\ pendingByEmail[e].changes = BurstChanges(burst[e])
              /\ \E t \in timers : t.id = pendingByEmail[e].timer /\ t.email = e

\* A queueMail call arrived while the send for its address was in flight.
C2_Witness ==
  \E i \in DOMAIN mails :
    /\ mails[i].result = "inflight"
    /\ mails[i].to \in DOMAIN pendingByEmail

\* ---------------------------------------------------------------------------
\* C3
\* ---------------------------------------------------------------------------
\* C3 (as claimed): every flush that finds an entry calls sendMail exactly once
\* with all changes of the entry, so every change queued is either still
\* pending or has been handed to the mailer exactly once.
C3_AsClaimed ==
  \A e \in Emails :
    \A j \in DOMAIN enq[e] :
      Occurrences(SentTo(mails, e) \o PendingChanges(e), enq[e][j]) = 1

\* C3 (amended): a flush that finds an entry calls sendMail exactly once with
\* all changes of the entry if SMTP is configured, and zero times if it is
\* not; sendMail is called by no other step. With SMTP configured every change
\* queued is either still pending or has been handed to the mailer exactly
\* once; without it no change is ever handed to the mailer.
C3_OneMailPerFlush ==
  /\ [][\A e \in Emails :
          /\ FlushOf(e) /\ e \in DOMAIN pendingByEmail =>
               IF smtpConfigured
                 THEN SendsExactly(e, pendingByEmail[e].changes)
                 ELSE mails' = mails
          /\ MailerCalledFor(e) => FlushOf(e)]_vars
  /\ [](IF smtpConfigured
          THEN \A e \in Emails : \A j \in DOMAIN enq[e] :
                 Occurrences(SentTo(mails, e) \o PendingChanges(e), enq[e][j]) = 1
          ELSE mails = <<>>)

\* A digest of three changes was handed to the mailer and delivered.
C3_Witness ==
  \E i \in DOMAIN mails : mails[i].result = "ok" /\ mails[i].count = 3

\* ---------------------------------------------------------------------------
\* C4
\* ---------------------------------------------------------------------------
\* C4: the changes of a failed sendMail call are in no other sendMail call and
\* not in the pending table; the address of a failed call has an entry only if
\* queueMail was called for it after the flush, and the entry then holds
\* exactly the changes and the editor of those later calls, with a timer set
\* MAIL_DEBOUNCE_MINUTES after the last of them.
C4_FailureLeavesNothing ==
  \A i \in DOMAIN mails :
    mails[i].result = "fail" =>
      LET e == mails[i].to
          m == mails[i]
      IN /\ \A j \in DOMAIN m.changes :
              /\ Occurrences(SentTo(mails, e), m.changes[j]) = 1
              /\ Occurrences(PendingChanges(e), m.changes[j]) = 0
         /\ e \in DOMAIN pendingByEmail <=> burst[e] # <<>>
         /\ e \in DOMAIN pendingByEmail =>
              LET p == pendingByEmail[e]
              IN /\ p.changes = BurstChanges(burst[e])
                 /\ p.editorName = EditorNameAfter(burst[e], "")
                 /\ p.editorEmail = EditorEmailAfter(burst[e], "")
                 /\ \E t \in timers :
                      /\ t.id = p.timer
                      /\ t.left = MAIL_DEBOUNCE_MINUTES - since[e]

\* After a failed send that named editor Ed, a save without editor headers
\* queued changes for the same address.
C4_Witness ==
  \E i \in DOMAIN mails :
    /\ mails[i].result = "fail"
    /\ mails[i].editorName = "Ed"
    /\ mails[i].to \in DOMAIN pendingByEmail
    /\ pendingByEmail[mails[i].to].editorName = ""

\* ---------------------------------------------------------------------------
\* C5
\* ---------------------------------------------------------------------------
\* C5: an address has an entry in the pending table if and only if exactly one
\* timeout is set for it, and that timeout is the one the entry holds; no
\* address ever has two timeouts; a flush leaves its address without entry and
\* without timeout, and the outcome of the delivery changes neither.
C5_EntryIffTimer ==
  /\ [](\A e \in Emails :
          /\ Cardinality(TimersOf(e)) <= 1
          /\ e \in DOMAIN pendingByEmail <=> Cardinality(TimersOf(e)) = 1
          /\ e \in DOMAIN pendingByEmail =>
               \A t \in TimersOf(e) : t.id = pendingByEmail[e].timer)
  /\ [][/\ \A e \in Emails :
             FlushOf(e) => e \notin DOMAIN pendingByEmail' /\ TimersOf(e)' = {}
        /\ (\E i \in DOMAIN mails : mails'[i].result # mails[i].result) =>
             pendingByEmail' = pendingByEmail /\ timers' = timers]_vars

\* An entry that was extended (its timeout replaced) while another address
\* has been flushed with the send failed.
C5_Witness ==
  \E e \in DOMAIN pendingByEmail :
    /\ Len(burst[e]) = 2
    /\ \E i \in DOMAIN mails : mails[i].to # e /\ mails[i].result = "fail"

\* ---------------------------------------------------------------------------
\* C6
\* ---------------------------------------------------------------------------
\* The step queues changes for e, flushes e, or settles a send to e.
ActsOn(e) ==
  \/ enq'[e] # enq[e]
  \/ burst'[e] # burst[e]
  \/ \E i \in DOMAIN mails : mails[i].to = e /\ mails'[i].result # mails[i].result
  \/ MailerCalledFor(e)

\* The changes the step queues for e.
QueuedNow(e) == SubSeq(enq'[e], Len(enq[e]) + 1, Len(enq'[e]))

EntryOf(p, e) == IF e \in DOMAIN p THEN <<p[e]>> ELSE <<>>

\* C6: a step that is not the passing of time leaves the entry (changes,
\* editor, timer) and the timeout of every address it does not act on
\* unchanged; a step that queues changes for an address appends exactly these
\* to the changes of that address, whatever it queues for other addresses;
\* and the entries of two addresses never share a timeout.
C6_RecipientIsolation ==
  /\ [][Tick \/ \A y \in Emails :
          /\ ~ActsOn(y) =>
               /\ EntryOf(pendingByEmail', y) = EntryOf(pendingByEmail, y)
               /\ TimersOf(y)' = TimersOf(y)
          /\ enq'[y] # enq[y] =>
               /\ y \in DOMAIN pendingByEmail'
               /\ pendingByEmail'[y].changes = PendingChanges(y) \o QueuedNow(y)
               /\ TimersOf(y)' = {[id |-> pendingByEmail'[y].timer, email |-> y,
                                   left |-> MAIL_DEBOUNCE_MINUTES]}]_vars
  /\ [](\A x, y \in DOMAIN pendingByEmail :
          x # y => pendingByEmail[x].timer # pendingByEmail[y].timer)

\* One save queued the same change for two addresses: two entries, each with
\* its own timeout, made by one step.
C6_Witness ==
  \E x, y \in DOMAIN pendingByEmail :
    /\ x # y
    /\ Len(burst[x]) = 1 /\ Len(burst[y]) = 1
    /\ pendingByEmail[x].changes = pendingByEmail[y].changes
    /\ pendingByEmail[y].timer = pendingByEmail[x].timer + 1
    /\ since[x] = 0 /\ since[y] = 0

\* ---------------------------------------------------------------------------
\* C7
\* ---------------------------------------------------------------------------
\* C7 (as claimed): a save request whose write to the store succeeded is
\* answered ok, whatever the old and the new task list hold.
C7_AsClaimed ==
  \A r \in 1..MaxReqs :
    (reqs[r].pc = "done" /\ reqs[r].written) => reqs[r].res = "ok"

\* ---------------------------------------------------------------------------
\* diffTasks on its own: the arguments of a call, then the call
\* ---------------------------------------------------------------------------

SeqsUpTo(S, n) == UNION {[1..k -> S] : k \in 0..n}

\* Task lists with up to MaxTasks tasks (identifiers may repeat).
SmallTasks ==
  {Task(id, v[1], Str(sTitle), Undef, v[2]) :
     id \in 1..MaxId,
     v \in {<<Str(sTodo), Arr(<<nameA>>)>>, <<Str(sDone), Arr(<<nameB>>)>>}}

SmallLists == SeqsUpTo(SmallTasks, MaxTasks)

\* Versions of one task that differ in their watched fields.
StatusVals == {Str(sTodo), Str(sDone)}
TitleVals == {Str(sTitle), Str(sTitlePadded)}
LinksVals ==
  {Undef, Arr(<<>>), Arr(<<sX, sY>>), Arr(<<sY, sX>>), Arr(<<sX, sX, sY>>),
   Arr(<<sX, sY, sX>>), Str(sXspaceY)}
AssignedVals ==
  {Undef, Arr(<<nameA>>), Arr(<<nameB>>), Arr(<<nameA, nameB>>), Arr(<<nameB, nameA>>)}

RichTasks ==
  {Task(1, st, ti, li, as) :
     st \in StatusVals, ti \in TitleVals, li \in LinksVals, as \in AssignedVals}

\* Lists of three tasks in which the identifier of the first task comes back
\* after a task with another identifier.
RepeatLists ==
  {l \in [1..3 -> SmallTasks] : l[1].id = l[3].id /\ l[2].id # l[1].id}

DiffInputs ==
  (SmallLists \X SmallLists)
    \cup {<<<<o>>, <<n>>>> : o \in RichTasks, n \in RichTasks}
    \cup {<<<<>>, <<n>>>> : n \in RichTasks}
    \cup {<<<<o>>, <<>>>> : o \in RichTasks}
    \cup ((RepeatLists \cup {<<>>}) \X (RepeatLists \cup {<<>>}))

AggIdle ==
  /\ smtpConfigured = TRUE
  /\ pendingByEmail = <<>>
  /\ timers = {}
  /\ nextTimer = 1
  /\ mails = <<>>
  /\ calls = 0
  /\ enq = [e \in Emails |-> <<>>]
  /\ burst = [e \in Emails |-> <<>>]
  /\ since = [e \in Emails |-> MAIL_DEBOUNCE_MINUTES]

InitDiff ==
  /\ AggIdle
  /\ SaveIdle
  /\ ResolveIdle
  /\ QueueIdle
  /\ AuthIdle
  /\ \E in \in DiffInputs : dOld = in[1] /\ dNew = in[2]
  /\ dPc = "call"
  /\ dOut = [err |-> FALSE, changes |-> <<>>]
  /\ dText = [editor |-> EditorLine("", ""), blocks |-> <<>>]

DiffCall ==
  /\ dPc = "call"
  /\ dOut' = diffTasks(dOld, dNew)
  /\ dPc' = "done"
  /\ UNCHANGED <<dOld, dNew, dText>>
  /\ UNCHANGED aggVars
  /\ UNCHANGED saveVars
  /\ UNCHANGED resolveVars
  /\ UNCHANGED queueVars
  /\ UNCHANGED authVars

\* The changes diffTasks returned are rendered as a flush renders them.
RenderCall(ed) ==
  /\ dPc = "done"
  /\ ~dOut.err
  /\ dText' = buildMailTextForRecipient("A", "a@x", dOut.changes, ed[1], ed[2])
  /\ dPc' = "rendered"
  /\ UNCHANGED <<dOld, dNew, dOut>>
  /\ UNCHANGED aggVars
  /\ UNCHANGED saveVars
  /\ UNCHANGED resolveVars
  /\ UNCHANGED queueVars
  /\ UNCHANGED authVars

NextDiff ==
  \/ DiffCall
  \/ \E ed \in Editors : RenderCall(ed)

SpecDiff == InitDiff /\ [][NextDiff]_vars

\* ---------------------------------------------------------------------------
\* C8
\* ---------------------------------------------------------------------------
\* C8: diffTasks(A, A) returns the empty sequence of changes for every list A
\* of task records, lists with repeated identifiers included.
C8_DiffSelfEmpty ==
  (dPc = "done" /\ dOld = dNew) => (~dOut.err /\ dOut.changes = <<>>)

\* A list that holds two different records with the same identifier was
\* compared with itself.
C8_Witness ==
  /\ dPc = "done"
  /\ dOld = dNew
  /\ Len(dOld) = 2
  /\ dOld[1].id = dOld[2].id
  /\ dOld[1] # dOld[2]

\* ---------------------------------------------------------------------------
\* C9
\* ---------------------------------------------------------------------------
\* The rules of the Field Normalizer: strings trimmed; links and assignedTo a
\* deduplicated, sorted sequence of trimmed non-empty strings, whether given
\* as a collection or as one whitespace-delimited string; absent values empty.
RECURSIVE TrimLeft(_)
TrimLeft(cs) ==
  IF cs # <<>> /\ Head(cs) = 32 THEN TrimLeft(Tail(cs)) ELSE cs

RECURSIVE TrimRight(_)
TrimRight(cs) ==
  IF cs # <<>> /\ cs[Len(cs)] = 32 THEN TrimRight(SubSeq(cs, 1, Len(cs) - 1)) ELSE cs

Trim(cs) == TrimRight(TrimLeft(cs))

\* The words of a whitespace-delimited string; cur is the word being read.
RECURSIVE Words(_, _)
Words(cs, cur) ==
  IF cs = <<>> THEN (IF cur = <<>> THEN <<>> ELSE <<cur>>)
  ELSE IF Head(cs) = 32
    THEN (IF cur = <<>> THEN <<>> ELSE <<cur>>) \o Words(Tail(cs), <<>>)
  ELSE Words(Tail(cs), Append(cur, Head(cs)))

RuleString(v) == IF v.t = "string" THEN Trim(v.s) ELSE <<>>

RuleMulti(v) ==
  LET raw == IF v.t = "array" THEN [i \in DOMAIN v.a |-> Trim(v.a[i])]
             ELSE IF v.t = "string" THEN Words(v.s, <<>>)
             ELSE <<>>
  IN SortStrings(SetOf(SelectSeq(raw, LAMBDA x : x # <<>>), {}))

RuleNormalize(t) ==
  [k \in WatchSet |->
     IF k \in {"links", "assignedTo"} THEN RuleMulti(t.f[k]) ELSE RuleString(t.f[k])]

\* C9 (as claimed): diffTasks emits no change for a task whose old and new
\* version normalize identically under the rules of the Field Normalizer.
C9_AsClaimed ==
  (/\ dPc = "done"
   /\ Len(dOld) = 1 /\ Len(dNew) = 1
   /\ dOld[1].id = dNew[1].id
   /\ RuleNormalize(dOld[1]) = RuleNormalize(dNew[1]))
  => dOut.changes = <<>>

\* ---------------------------------------------------------------------------
\* C10
\* ---------------------------------------------------------------------------
IsPermutation(xs, ys) ==
  /\ Len(xs) = Len(ys)
  /\ \A i \in DOMAIN xs : Occurrences(xs, xs[i]) = Occurrences(ys, xs[i])

\* The two versions agree in every watched field, except that links or
\* assignedTo may hold the same values in another order.
SameUpToOrder(o, n) ==
  \A k \in WatchSet :
    \/ o.f[k] = n.f[k]
    \/ /\ k \in {"links", "assignedTo"}
       /\ o.f[k].t = "array" /\ n.f[k].t = "array"
       /\ IsPermutation(o.f[k].a, n.f[k].a)

\* C10: diffTasks emits no change for a task in both lists whose versions
\* agree in every watched field up to the order of links and of assignedTo.
C10_OrderIndependent ==
  (/\ dPc = "done"
   /\ Len(dOld) = 1 /\ Len(dNew) = 1
   /\ dOld[1].id = dNew[1].id
   /\ SameUpToOrder(dOld[1], dNew[1]))
  => (~dOut.err /\ dOut.changes = <<>>)

\* A task whose links and whose assignedTo were both reordered was compared.
C10_Witness ==
  /\ dPc = "done"
  /\ Len(dOld) = 1 /\ Len(dNew) = 1
  /\ SameUpToOrder(dOld[1], dNew[1])
  /\ dOld[1].f["links"] # dNew[1].f["links"]
  /\ dOld[1].f["assignedTo"] # dNew[1].f["assignedTo"]

\* ---------------------------------------------------------------------------
\* C11
\* ---------------------------------------------------------------------------
\* The identifiers of a task list.
IdsOf(list) == {list[i].id : i \in DOMAIN list}

\* The record a list holds for an identifier: the last one with it.
TaskOf(list, id) ==
  list[CHOOSE i \in DOMAIN list :
         list[i].id = id /\ \A j \in DOMAIN list : list[j].id = id => j <= i]

\* The people assigned to a task, as a set.
AssignedSet(t) ==
  IF t.f["assignedTo"].t = "array"
    THEN {t.f["assignedTo"].a[i] : i \in DOMAIN t.f["assignedTo"].a}
    ELSE {}

\* The changes of a result that carry an identifier.
EventsFor(changes, id) == SelectSeq(changes, LAMBDA c : c.id = id)

\* The recipients of a change, as a set; no recipient is listed twice.
RecipientSet(c) == {c.recipients[i] : i \in DOMAIN c.recipients}

NoRepeat(xs) == \A i, j \in DOMAIN xs : xs[i] = xs[j] => i = j

\* C11: for every identifier that is in exactly one of the two lists diffTasks
\* returns exactly one change: created, with the people assigned to the new
\* task as recipients, when it is only in the new list; deleted, with the
\* people assigned to the old task, when it is only in the old list.
C11_CreatedDeleted ==
  dPc = "done" =>
    /\ ~dOut.err
    /\ \A id \in IdsOf(dNew) \ IdsOf(dOld) :
         LET evs == EventsFor(dOut.changes, id)
         IN /\ Len(evs) = 1
            /\ evs[1].type = "created"
            /\ evs[1].after = TaskOf(dNew, id)
            /\ RecipientSet(evs[1]) = AssignedSet(TaskOf(dNew, id))
            /\ NoRepeat(evs[1].recipients)
    /\ \A id \in IdsOf(dOld) \ IdsOf(dNew) :
         LET evs == EventsFor(dOut.changes, id)
         IN /\ Len(evs) = 1
            /\ evs[1].type = "deleted"
            /\ evs[1].before = TaskOf(dOld, id)
            /\ RecipientSet(evs[1]) = AssignedSet(TaskOf(dOld, id))
            /\ NoRepeat(evs[1].recipients)

\* One call returned a created and a deleted change, the new list holding two
\* records for the created identifier.
C11_Witness ==
  /\ dPc = "done"
  /\ Len(dNew) = 2 /\ dNew[1].id = dNew[2].id /\ dNew[1] # dNew[2]
  /\ \E i, j \in DOMAIN dOut.changes :
       dOut.changes[i].type = "created" /\ dOut.changes[j].type = "deleted"

\* ---------------------------------------------------------------------------
\* C12
\* ---------------------------------------------------------------------------
\* C12: for a task that is in both lists and whose two versions differ in a
\* watched field by more than the order of links or assignedTo, diffTasks
\* returns exactly one change, of type updated, whose recipients are the
\* people assigned before together with the people assigned after.
C12_UpdatedUnion ==
  dPc = "done" =>
    \A id \in IdsOf(dOld) \cap IdsOf(dNew) :
      ~SameUpToOrder(TaskOf(dOld, id), TaskOf(dNew, id)) =>
        LET evs == EventsFor(dOut.changes, id)
        IN /\ Len(evs) = 1
           /\ evs[1].type = "updated"
           /\ evs[1].before = TaskOf(dOld, id)
           /\ evs[1].after = TaskOf(dNew, id)
           /\ RecipientSet(evs[1])
                = AssignedSet(TaskOf(dOld, id)) \cup AssignedSet(TaskOf(dNew, id))
           /\ NoRepeat(evs[1].recipients)

\* A task went from one person to another: the updated change names both.
C12_Witness ==
  /\ dPc = "done"
  /\ \E i \in DOMAIN dOut.changes :
       /\ dOut.changes[i].type = "updated"
       /\ AssignedSet(dOut.changes[i].before) = {nameA}
       /\ AssignedSet(dOut.changes[i].after) = {nameB}
       /\ RecipientSet(dOut.changes[i]) = {nameA, nameB}

\* ---------------------------------------------------------------------------
\* C13
\* ---------------------------------------------------------------------------
\* The two versions of a task differ in a watched field: the values are not
\* the same and are not arrays that hold the same strings in another order.
DiffersIn(o, n, k) ==
  ~(\/ o.f[k] = n.f[k]
    \/ /\ o.f[k].t = "array" /\ n.f[k].t = "array"
       /\ IsPermutation(o.f[k].a, n.f[k].a))

\* The watched fields in which two versions differ, in the order of
\* WATCH_FIELDS.
DifferingFields(o, n) ==
  SelectSeq(WATCH_FIELDS, LAMBDA k : DiffersIn(o, n, k))

\* C13: diffTasks returns an updated change for a task in both lists if and
\* only if its versions differ in at least one watched field, and the lines
\* rendered for an updated change name exactly the watched fields that differ,
\* each with the JSON text of its old and of its new value; so every updated
\* change is rendered with at least one line.
C13_DeltasAgree ==
  dPc = "rendered" =>
    /\ Len(dText.blocks) = Len(dOut.changes)
    /\ \A id \in IdsOf(dOld) \cap IdsOf(dNew) :
         (EventsFor(dOut.changes, id) # <<>>)
           <=> (DifferingFields(TaskOf(dOld, id), TaskOf(dNew, id)) # <<>>)
    /\ \A i \in DOMAIN dOut.changes :
         LET c == dOut.changes[i]
             deltas == dText.blocks[i].deltas
             fields == DifferingFields(c.before, c.after)
         IN IF c.type = "updated"
              THEN /\ deltas # <<>>
                   /\ Len(deltas) = Len(fields)
                   /\ \A j \in DOMAIN deltas :
                        /\ deltas[j].field = fields[j]
                        /\ deltas[j].from = JsonText(c.before.f[fields[j]])
                        /\ deltas[j].to = JsonText(c.after.f[fields[j]])
              ELSE deltas = <<>>

\* A task went from todo to done while its links were reordered and nothing
\* else changed: the block of its updated change has the status line and no
\* other.
C13_Witness ==
  /\ dPc = "rendered"
  /\ \E i \in DOMAIN dText.blocks :
       /\ dText.blocks[i].deltas
            = <<[field |-> "status", from |-> JsonString(sTodo), to |-> JsonString(sDone)]>>
       /\ dOut.changes[i].before.f["assignedTo"] = dOut.changes[i].after.f["assignedTo"]
       /\ dOut.changes[i].before.f["links"] = Arr(<<sX, sY>>)
       /\ dOut.changes[i].after.f["links"] = Arr(<<sY, sX>>)

\* ---------------------------------------------------------------------------
\* C14
\* ---------------------------------------------------------------------------
\* C14: the changes buffered for an address are the changes of the queueMail
\* calls made for it since its last flush, concatenated in call order, and
\* the digest a flush hands to the formatter and the mailer holds exactly
\* the changes that were buffered, in that order.
C14_CallOrder ==
  /\ [](\A e \in Emails : PendingChanges(e) = BurstChanges(burst[e]))
  /\ [][\A e \in Emails :
          MailerCalledFor(e) =>
            /\ mails'[Len(mails')].changes = BurstChanges(burst[e])
            /\ mails'[Len(mails')].changes = PendingChanges(e)]_vars

\* A digest with the two changes of the first save followed by the change of
\* the second save was handed to the mailer.
C14_Witness ==
  \E i \in DOMAIN mails : mails[i].changes = NewChanges(1) \o NewChanges(2)

\* ---------------------------------------------------------------------------
\* C15
\* ---------------------------------------------------------------------------
\* The editor (name and address of one save) of the most recent call of a
\* sequence of queueMail calls that carried a name or an address; cur when no
\* call carried one.
RECURSIVE LastEditor(_, _)
LastEditor(b, cur) ==
  IF b = <<>> THEN cur
  ELSE LastEditor(Tail(b),
                  IF Head(b).editorName # "" \/ Head(b).editorEmail # ""
                    THEN <<Head(b).editorName, Head(b).editorEmail>>
                    ELSE cur)

\* C15 (as claimed): the editor name and the editor address of a pending
\* entry are those of the most recent queueMail call since the last flush
\* that carried an editor, both taken from that one call.
C15_AsClaimed ==
  \A e \in DOMAIN pendingByEmail :
    <<pendingByEmail[e].editorName, pendingByEmail[e].editorEmail>>
      = LastEditor(burst[e], <<"", "">>)

\* ---------------------------------------------------------------------------
\* resolveEmailForName on its own: a directory, a name, then the call
\* ---------------------------------------------------------------------------
\* The keys and the directories of TEAM_EMAILS_JSON: up to two keys, no key
\* twice, every key with an address.
DirectoryKeys == {nameA, nameLowerA, nameB}

Directories ==
  {d \in SeqsUpTo([name : DirectoryKeys, email : Emails], 2) : NoRepeat([i \in DOMAIN d |-> d[i].name])}

\* The names passed: "", "A", "a", "B", "b", "constructor", "toString".
nameLowerB == <<98>>

ResolveNames == {<<>>, nameA, nameLowerA, nameB, nameLowerB, sConstructor, sToString}

InitResolve ==
  /\ AggIdle
  /\ SaveIdle
  /\ DiffIdle
  /\ QueueIdle
  /\ AuthIdle
  /\ rDir \in Directories
  /\ rName \in ResolveNames
  /\ rPc = "call"
  /\ rOut = NoEmail

ResolveCall ==
  /\ rPc = "call"
  /\ rOut' = resolveEmailForNameIn(rDir, rName)
  /\ rPc' = "done"
  /\ UNCHANGED <<rDir, rName>>
  /\ UNCHANGED aggVars
  /\ UNCHANGED diffVars
  /\ UNCHANGED saveVars
  /\ UNCHANGED queueVars
  /\ UNCHANGED authVars

NextResolve == ResolveCall

SpecResolve == InitResolve /\ [][NextResolve]_vars

\* ---------------------------------------------------------------------------
\* C16
\* ---------------------------------------------------------------------------
\* The addresses of the keys of a directory that are the name, and of those
\* that are the name up to the case of letters.
ExactAddresses(directory, name) ==
  {directory[i].email : i \in {j \in DOMAIN directory : directory[j].name = name}}

FoldedAddresses(directory, name) ==
  {directory[i].email :
     i \in {j \in DOMAIN directory : toLowerCase(directory[j].name) = toLowerCase(name)}}

\* C16 (as claimed): resolveEmailForName returns the address of the key that
\* is the name when the directory has one, otherwise the address of a key
\* that is the name up to case, otherwise nothing.
C16_AsClaimed ==
  rPc = "done" =>
    IF ExactAddresses(rDir, rName) # {} THEN rOut \in ExactAddresses(rDir, rName)
    ELSE IF FoldedAddresses(rDir, rName) # {} THEN rOut \in FoldedAddresses(rDir, rName)
    ELSE rOut = NoEmail

\* ---------------------------------------------------------------------------
\* src/server.js: enqueueChanges and the mailQueue
\* ---------------------------------------------------------------------------
\* The editor passed to enqueueChanges: an object {name, email}, or nothing.
NoEditor == <<>>

QueueEditors == {NoEditor, <<"Ed", "ed@x">>, <<"Bo", "">>}

\* mailQueue.get(recipientEmail) || { timer: null, items: [], lastEditor: null };
\* timer 0 stands for null.
QueueEntry(q, email) ==
  IF email \in DOMAIN q THEN q[email]
  ELSE [timer |-> 0, items |-> <<>>, lastEditor |-> NoEditor]

\* enqueueChanges: the queue, the timeouts and the next handle after the call.
\* The timeout is set only when the entry has none.
enqueueChanges(q, ts, n, recipientEmail, changeEvents, editor) ==
  LET existing == QueueEntry(q, recipientEmail)
      items == existing.items \o changeEvents
      lastEditor == IF editor # NoEditor THEN editor ELSE existing.lastEditor
      entry == [timer |-> IF existing.timer = 0 THEN n ELSE existing.timer,
                items |-> items, lastEditor |-> lastEditor]
  IN [queue |-> [e \in DOMAIN q \cup {recipientEmail} |->
                   IF e = recipientEmail THEN entry ELSE q[e]],
      timers |-> IF existing.timer = 0 THEN SetTimeout(ts, n, recipientEmail) ELSE ts,
      nextTimer |-> IF existing.timer = 0 THEN n + 1 ELSE n]

\* sendDigestEmail: the argument of transporter.sendMail.
DigestFor(email, items, ed) ==
  [to |-> email, count |-> Len(items), changes |-> items,
   editorName |-> IF ed = NoEditor THEN "" ELSE ed[1],
   editorEmail |-> IF ed = NoEditor THEN "" ELSE ed[2],
   result |-> "inflight"]

InitQueue == AggInit /\ DiffIdle /\ ResolveIdle /\ QueueIdle /\ AuthIdle /\ SaveIdle

\* A call of enqueueChanges for one address.
EnqueueChanges(email, ed) ==
  /\ calls < MaxCalls
  /\ LET changes == NewChanges(calls + 1)
         r == enqueueChanges(mailQueue, timers, nextTimer, email, changes, ed)
     IN /\ mailQueue' = r.queue
        /\ timers' = r.timers
        /\ nextTimer' = r.nextTimer
        /\ enq' = [enq EXCEPT ![email] = @ \o changes]
        /\ burst' = [burst EXCEPT ![email] =
                       Append(@, [changes |-> changes,
                                  editorName |-> IF ed = NoEditor THEN "" ELSE ed[1],
                                  editorEmail |-> IF ed = NoEditor THEN "" ELSE ed[2]])]
        /\ since' = [since EXCEPT ![email] = 0]
  /\ calls' = calls + 1
  /\ UNCHANGED <<smtpConfigured, pendingByEmail, mails>>
  /\ UNCHANGED diffVars
  /\ UNCHANGED resolveVars
  /\ UNCHANGED saveVars
  /\ UNCHANGED authVars

\* The timeout of an entry fires: the callback takes the items and the editor,
\* deletes the entry and runs sendDigestEmail up to the await of sendMail.
QueueTimerFire(tm) ==
  /\ tm \in timers
  /\ tm.left = 0
  /\ IF tm.email \in DOMAIN mailQueue
       THEN /\ mails' = Append(mails, DigestFor(tm.email, mailQueue[tm.email].items,
                                                mailQueue[tm.email].lastEditor))
            /\ mailQueue' = Remove(mailQueue, tm.email)
       ELSE UNCHANGED <<mails, mailQueue>>
  /\ timers' = timers \ {tm}
  /\ burst' = [burst EXCEPT ![tm.email] = <<>>]
  /\ UNCHANGED <<smtpConfigured, pendingByEmail, nextTimer, calls, enq, since>>
  /\ UNCHANGED diffVars
  /\ UNCHANGED resolveVars
  /\ UNCHANGED saveVars
  /\ UNCHANGED authVars

\* sendDigestEmail settles: logged as sent, or caught and logged as failed.
DigestSettled(i, ok) ==
  /\ i \in DOMAIN mails
  /\ mails[i].result = "inflight"
  /\ mails' = [mails EXCEPT ![i].result = IF ok THEN "ok" ELSE "fail"]
  /\ UNCHANGED <<smtpConfigured, pendingByEmail, timers, nextTimer, calls, enq,
                 burst, since>>
  /\ UNCHANGED diffVars
  /\ UNCHANGED resolveVars
  /\ UNCHANGED queueVars
  /\ UNCHANGED saveVars
  /\ UNCHANGED authVars

NextQueue ==
  \/ \E email \in Emails, ed \in QueueEditors : EnqueueChanges(email, ed)
  \/ \E tm \in timers : QueueTimerFire(tm)
  \/ \E i \in DOMAIN mails, ok \in BOOLEAN : DigestSettled(i, ok)
  \/ Tick

SpecQueue == InitQueue /\ [][NextQueue]_vars

\* ---------------------------------------------------------------------------
\* C17
\* ---------------------------------------------------------------------------
\* C17 (as claimed): enqueueChanges for an address that has an entry moves
\* its flush to MAIL_DEBOUNCE_MINUTES after the call, so a digest is never
\* handed to the mailer before MAIL_DEBOUNCE_MINUTES have passed since the
\* last enqueueChanges for its address.
C17_AsClaimed ==
  [][\A e \in Emails :
       MailerCalledFor(e) => since[e] >= MAIL_DEBOUNCE_MINUTES]_vars

\* ---------------------------------------------------------------------------
\* C18
\* ---------------------------------------------------------------------------
\* A list of task records: objects whose assignedTo is an array or is missing.
TaskRecords(list) ==
  \A i \in DOMAIN list :
    list[i].kind = "object" /\ list[i].f["assignedTo"].t \in {"array", "undefined"}

C19_WriteFirst ==
  /\ [][\A r \in 1..MaxReqs :
          (reqs[r].pc = "saving" /\ reqs'[r].pc = "done") =>
            /\ reqs'[r].res \in {"502", "500"}
            /\ UNCHANGED <<pendingByEmail, timers, nextTimer, enq, burst, store>>]_vars
  /\ [](\A r \in 1..MaxReqs :
          (reqs[r].pc = "done" /\ ~reqs[r].written) =>
            reqs[r].res \in {"502", "500"} /\ reqs[r].changes = <<>>)
  /\ [][enq' # enq =>
          \E r \in 1..MaxReqs :
            /\ reqs[r].pc = "written" /\ reqs[r].written
            /\ reqs'[r].pc = "done" /\ reqs'[r].res = "ok"]_vars

\* A request that would have changed the task of A and B was answered 502
\* while the changes of another request were pending for both.
C19_Witness ==
  \E r \in 1..MaxReqs :
    /\ reqs[r].pc = "done" /\ reqs[r].res = "502"
    /\ reqs[r].body = <<Task(1, Str(sTodo), Str(sTitle), Undef, Arr(<<nameA>>))>>
    /\ reqs[r].loaded
    /\ reqs[r].oldTasks = store
    /\ reqs[r].oldTasks # reqs[r].body
    /\ DOMAIN pendingByEmail = {"a@x", "b@x"}
    /\ Len(enq["a@x"]) = 1

\* ---------------------------------------------------------------------------
\* C20
\* ---------------------------------------------------------------------------
\* C20 (as claimed): the old list a request loaded is the list the store
\* holds when the write of that request replaces it.
C20_AsClaimed ==
  [][\A r \in 1..MaxReqs :
       (reqs[r].pc = "saving" /\ reqs'[r].pc = "written" /\ reqs[r].loaded) =>
         reqs[r].oldTasks = store]_vars

\* ---------------------------------------------------------------------------
\* C21
\* ---------------------------------------------------------------------------
\* The changes the step that finishes a request queues for address e.
QueuedByStep(e) == SubSeq(enq'[e], Len(enq[e]) + 1, Len(enq'[e]))

\* C21 (as claimed): the step that finishes a save queues each change at most
\* once for every address, so the changes it queues for an address are
\* pairwise different.
C21_AsClaimed ==
  [][\A r \in 1..MaxReqs :
       (reqs[r].pc = "written" /\ reqs'[r].pc = "done" /\ reqs'[r].res = "ok") =>
         \A e \in Emails : NoRepeat(QueuedByStep(e))]_vars

\* ---------------------------------------------------------------------------
\* C22
\* ---------------------------------------------------------------------------
\* A task list without the records that a later record with the same
\* identifier replaces.
RECURSIVE LastOnly(_)
LastOnly(list) ==
  IF list = <<>> THEN <<>>
  ELSE IF /\ Head(list).kind = "object"
          /\ \E j \in 2..Len(list) :
               list[j].kind = "object" /\ list[j].id = Head(list).id
    THEN LastOnly(Tail(list))
  ELSE <<Head(list)>> \o LastOnly(Tail(list))

\* The place where an identifier first occurs in the old list followed by the
\* new list.
FirstPlace(id) ==
  LET both == dOld \o dNew
  IN CHOOSE i \in DOMAIN both :
       both[i].id = id /\ \A j \in DOMAIN both : both[j].id = id => i <= j

\* C22 (as claimed): diffTasks returns for two lists exactly what it returns
\* for the same lists with only the last record of every identifier.
C22_AsClaimed ==
  dPc = "done" => dOut = diffTasks(LastOnly(dOld), LastOnly(dNew))

\* C22: diffTasks returns for two lists the changes it returns for the same
\* lists with only the last record of every identifier, possibly in another
\* order; it returns at most one change per identifier, and the changes are
\* in the order in which their identifiers first occur in the old list
\* followed by the new list.
C22_LastSeenWins ==
  dPc = "done" =>
    LET last == diffTasks(LastOnly(dOld), LastOnly(dNew))
    IN /\ dOut.err = last.err
       /\ IsPermutation(dOut.changes, last.changes)
       /\ \A id \in IdsOf(dOld) \cup IdsOf(dNew) : Len(EventsFor(dOut.changes, id)) <= 1
       /\ \A i, j \in DOMAIN dOut.changes :
            i < j => FirstPlace(dOut.changes[i].id) < FirstPlace(dOut.changes[j].id)

\* A new list whose first identifier comes back in its third record was
\* compared with the empty list: the change of that identifier comes first and
\* carries the third record, while the list of last records alone has it
\* second.
C22_Witness ==
  /\ dPc = "done"
  /\ dOld = <<>>
  /\ Len(dNew) = 3
  /\ dNew[1].id = dNew[3].id /\ dNew[1] # dNew[3] /\ dNew[2].id # dNew[1].id
  /\ Len(dOut.changes) = 2
  /\ dOut.changes[1].id = dNew[1].id
  /\ dOut.changes[1].after = dNew[3]
  /\ dOut.changes[2].id = dNew[2].id
  /\ LastOnly(dNew) = <<dNew[2], dNew[3]>>

\* ---------------------------------------------------------------------------
\* tokenStore, POST /api/auth and requireEditor
\* ---------------------------------------------------------------------------
\* 1000 * 60 * 60 milliseconds; the unit of time of the clock is half an hour.
TokenLifetime == 2

\* The clock of the model stops at MaxNow.
MaxNow == 4

\* The strings Math.random().toString(36).slice(2) gives, twice, in makeToken.
Randoms == {1, 2}

\* makeToken: the random part followed by Date.now().toString(36).
makeToken(r, t) == <<r, t>>

\* The x-editor-token headers of the model: a missing header, or any string
\* that makeToken can return.
NoToken == <<>>
HeaderTokens == {NoToken} \cup {makeToken(r, t) : r \in Randoms, t \in 0..MaxNow}

\* tokenStore.set / tokenStore.delete
MapSet(m, k, v) == [x \in DOMAIN m \cup {k} |-> IF x = k THEN v ELSE m[x]]
MapDelete(m, k) == [x \in DOMAIN m \ {k} |-> m[x]]

\* Mutant: a token in the store is accepted whatever its expiry.
requireEditor_NoExpiry(variant, ts, t, token) ==
  IF token = NoToken \/ token \notin DOMAIN ts
    THEN [pass |-> FALSE, tokenStore |-> ts]
  ELSE [pass |-> TRUE, tokenStore |-> ts]

\* requireEditor at time t: pass is TRUE when next() is called, FALSE when the
\* request is answered 401. src/unnamed/part_000 leaves the store alone;
\* src/server.js deletes a token it finds expired.
requireEditor(variant, ts, t, token) ==
  IF variant = "part_000"
    THEN IF token = NoToken THEN [pass |-> FALSE, tokenStore |-> ts]
         ELSE IF token \notin DOMAIN ts \/ ts[token] = 0 \/ ts[token] < t
           THEN [pass |-> FALSE, tokenStore |-> ts]
         ELSE [pass |-> TRUE, tokenStore |-> ts]
  ELSE IF token = NoToken \/ token \notin DOMAIN ts
         THEN [pass |-> FALSE, tokenStore |-> ts]
       ELSE IF t > ts[token]
         THEN [pass |-> FALSE, tokenStore |-> MapDelete(ts, token)]
       ELSE [pass |-> TRUE, tokenStore |-> ts]

InitAuth ==
  /\ AggIdle /\ DiffIdle /\ ResolveIdle /\ QueueIdle /\ SaveIdle
  /\ tokenStore = <<>>
  /\ now = 0
  /\ authVariant \in {"part_000", "server.js"}
  /\ issued = {}
  /\ lastAuth = NoResponse

\* POST /api/auth: 400 without a password, 401 with a wrong one, 500 when
\* bcrypt.compare throws; otherwise a token is made, stored with its expiry and
\* returned.
AuthRequest(password, r) ==
  /\ IF password = "right"
       THEN LET token == makeToken(r, now)
            IN /\ tokenStore' = MapSet(tokenStore, token, now + TokenLifetime)
               /\ issued' = issued \cup {[token |-> token, at |-> now]}
               /\ lastAuth' = [route |-> "auth", token |-> token, at |-> now,
                               status |-> 200]
       ELSE /\ lastAuth' = [route |-> "auth", token |-> NoToken, at |-> now,
                            status |-> CASE password = "missing" -> 400
                                         [] password = "wrong" -> 401
                                         [] OTHER -> 500]
            /\ UNCHANGED <<tokenStore, issued>>
  /\ UNCHANGED <<now, authVariant>>
  /\ UNCHANGED aggVars
  /\ UNCHANGED diffVars
  /\ UNCHANGED resolveVars
  /\ UNCHANGED queueVars
  /\ UNCHANGED saveVars

\* PUT /api/data reaches requireEditor: status 401, or 0 when next() hands the
\* request to the handler.
EditorRequest(token) ==
  /\ LET out == requireEditor(authVariant, tokenStore, now, token)
     IN /\ tokenStore' = out.tokenStore
        /\ lastAuth' = [route |-> "save", token |-> token, at |-> now,
                        status |-> IF out.pass THEN 0 ELSE 401]
  /\ UNCHANGED <<now, authVariant, issued>>
  /\ UNCHANGED aggVars
  /\ UNCHANGED diffVars
  /\ UNCHANGED resolveVars
  /\ UNCHANGED queueVars
  /\ UNCHANGED saveVars

\* Date.now() goes on by half an hour.
ClockTick ==
  /\ now < MaxNow
  /\ now' = now + 1
  /\ UNCHANGED <<tokenStore, authVariant, issued, lastAuth>>
  /\ UNCHANGED aggVars
  /\ UNCHANGED diffVars
  /\ UNCHANGED resolveVars
  /\ UNCHANGED queueVars
  /\ UNCHANGED saveVars

NextAuth ==
  \/ \E password \in {"missing", "wrong", "throws", "right"}, r \in Randoms :
       AuthRequest(password, r)
  \/ \E token \in HeaderTokens : EditorRequest(token)
  \/ ClockTick

SpecAuth == InitAuth /\ [][NextAuth]_vars

\* ---------------------------------------------------------------------------
\* C23
\* ---------------------------------------------------------------------------
\* The request passed requireEditor with this token.
Passed(resp, token) == resp.route = "save" /\ resp.status = 0 /\ resp.token = token

\* The times at which POST /api/auth handed out a token.
IssueTimes(token) == {i.at : i \in {x \in issued : x.token = token}}

\* C23: a request passes requireEditor only with a token that POST /api/auth
\* handed out, at most TokenLifetime after it did; the expiry the store holds
\* for a token is its time of issue plus TokenLifetime and no step changes it;
\* the clock never goes back, and a request with a token that was just
\* answered 401 does not pass afterwards.
C23_TokenValid ==
  /\ [](\A token \in HeaderTokens :
          Passed(lastAuth, token) =>
            \E at \in IssueTimes(token) : lastAuth.at <= at + TokenLifetime)
  /\ [](\A token \in DOMAIN tokenStore :
          IssueTimes(token) = {tokenStore[token] - TokenLifetime})
  /\ [][/\ now' >= now
        /\ \A token \in DOMAIN tokenStore \cap DOMAIN tokenStore' :
             tokenStore'[token] = tokenStore[token]]_vars
  /\ [][\A token \in HeaderTokens :
          (lastAuth.route = "save" /\ lastAuth.status = 401 /\ lastAuth.token = token
             /\ IssueTimes(token) # {} /\ lastAuth' # lastAuth)
            => ~Passed(lastAuth', token)]_vars

\* A token that was handed out has expired and was answered 401, while a
\* token handed out later is still in the store and valid.
C23_Witness ==
  /\ lastAuth.route = "save" /\ lastAuth.status = 401
  /\ IssueTimes(lastAuth.token) # {}
  /\ \A at \in IssueTimes(lastAuth.token) : lastAuth.at > at + TokenLifetime
  /\ \E token \in DOMAIN tokenStore : tokenStore[token] >= now
  /\ now > lastAuth.at

====
